---------------------------- MODULE Spec2Model ----------------------------
(***************************************************************************)
(* Journal posting of the foundation bookkeeping application.              *)
(*                                                                         *)
(*   financialAPI.createJournalEntry / getJournalEntries /                 *)
(*   updateJournalEntry / createAccount / updateAccount                    *)
(*       src/src/components/financial/BookkeepingModule.tsx                *)
(*   ValidationUtils.validateJournalEntry                                  *)
(*       src/src/utils/validation.ts                                       *)
(*   generate_entry_number (max-based, the later migration, in force)      *)
(*       src/supabase/migrations/20250829154929_broad_fog.sql              *)
(*   tables accounts, journal_entries, journal_entry_lines, constraints    *)
(*       src/unnamed/part_002                                              *)
(*                                                                         *)
(* Text values (entry numbers) are sequences of one-character strings, so  *)
(* that formatting, padding and pattern matching are computed, not assumed.*)
(* Currency amounts are integers in cents (numeric(15,2)).                 *)
(***************************************************************************)
EXTENDS Integers, Sequences, FiniteSets, TLC

VARIABLES
    year,                 \* EXTRACT(YEAR FROM CURRENT_DATE)
    journal_entries,      \* table journal_entries: a set of rows
    journal_entry_lines,  \* table journal_entry_lines: a set of rows
    nextId,               \* gen_random_uuid(): the next fresh row id
    pc,                   \* per client: position inside createJournalEntry
    entryData,            \* per client: the argument of the call
    entryNumber,          \* per client: data returned by the rpc (NULL if none)
    entry,                \* per client: id of the header row the call inserted
    result,               \* per client: the ApiResponse returned
    assigned,             \* history: <<foundation, entry_number>> ever persisted
    generatedThisYear,    \* history: foundations numbered since the year began
    numArgs,              \* argument of a direct generate_entry_number call
    numResult,            \* its result
    accounts,             \* table accounts: a set of rows
    valArgs,              \* argument of a validateJournalEntry call
    valResult,            \* its result
    bootstrap,            \* history: per foundation, the direct calls of
                          \* create_default_accounts and whether one raised
    formData,             \* state of JournalEntryForm
    formEvent             \* the form handler that ran last, with what it read

vars == << year, journal_entries, journal_entry_lines, nextId, pc,
           entryData, entryNumber, entry, result, assigned,
           generatedThisYear, numArgs, numResult, accounts, valArgs,
           valResult, bootstrap, formData,
                    formEvent >>

-----------------------------------------------------------------------------
(* Bounds of the model *)

NumClients == 2
MaxLines == 2
MaxAmount == 1
MaxTicks == 1
FirstYear == 2025
MaxRows == 2

(* Program constants *)

\* Math.abs(totalDebit - totalCredit) > 0.01, in cents
Tolerance == 1
\* LPAD(next_sequence::text, 6, '0')
PadWidth == 6

Clients == 1..NumClients
Foundations == {"F1", "F2"}
Years == FirstYear..(FirstYear + MaxTicks)
Amounts == 0..MaxAmount
\* accounts that exist (Cash, Donation Revenue); "" is the form's unselected
\* account
AccountIds == {"1010", "4010"}
AccountRefs == AccountIds \cup {""}

\* SQL NULL / JS null for a text value (falsy in JS, like the empty string)
NULL == << >>

-----------------------------------------------------------------------------
(* Text functions of PostgreSQL and JavaScript *)

DigitChars == << "0", "1", "2", "3", "4", "5", "6", "7", "8", "9" >>

IsDigit(c) == c \in { DigitChars[i] : i \in 1..10 }

DigitValue(c) == (CHOOSE i \in 1..10 : DigitChars[i] = c) - 1

\* integer::text (also the decimal rendering inside a JS template literal)
RECURSIVE IntToText(_)
IntToText(n) ==
    IF n < 10 THEN << DigitChars[n + 1] >>
    ELSE IntToText(n \div 10) \o << DigitChars[(n % 10) + 1] >>

\* CAST(text AS integer) of a digit string
RECURSIVE TextToInt(_)
TextToInt(s) ==
    IF s = << >> THEN 0
    ELSE 10 * TextToInt(SubSeq(s, 1, Len(s) - 1)) + DigitValue(s[Len(s)])

\* LPAD(s, len, fill): pads on the left, and TRUNCATES on the right when s is
\* already longer than len
LPAD(s, len, fill) ==
    IF Len(s) >= len THEN SubSeq(s, 1, len)
    ELSE [i \in 1..(len - Len(s)) |-> fill] \o s

AllDigits(s) == \A i \in 1..Len(s) : IsDigit(s[i])

\* '^JE-' || year_part || '-'
PatternPrefix(year_part) == << "J", "E", "-" >> \o year_part \o << "-" >>

\* a pattern that leaves the year open: '^JE-[0-9]+-[0-9]+$'
MatchesPattern_AnyYear(entry_number, year_part) ==
    LET n == Len(PatternPrefix(year_part)) IN
    /\ Len(entry_number) > n
    /\ SubSeq(entry_number, 1, 3) = << "J", "E", "-" >>
    /\ AllDigits(SubSeq(entry_number, 4, n - 1))
    /\ entry_number[n] = "-"
    /\ AllDigits(SubSeq(entry_number, n + 1, Len(entry_number)))

\* entry_number ~ ('^JE-' || year_part || '-[0-9]+$')
MatchesPattern(entry_number, year_part) ==
    LET pre == PatternPrefix(year_part) IN
    /\ Len(entry_number) > Len(pre)
    /\ SubSeq(entry_number, 1, Len(pre)) = pre
    /\ AllDigits(SubSeq(entry_number, Len(pre) + 1, Len(entry_number)))

\* SUBSTRING(entry_number FROM '^JE-' || year_part || '-([0-9]+)$')
CapturedDigits(entry_number, year_part) ==
    SubSeq(entry_number, Len(PatternPrefix(year_part)) + 1, Len(entry_number))

SetMax(S) == CHOOSE x \in S : \A y \in S : y <= x

-----------------------------------------------------------------------------
(* generate_entry_number(foundation_id), max-based: broad_fog.sql 67-90 *)

\* CASE WHEN entry_number ~ pattern THEN CAST(SUBSTRING(...) AS integer) ELSE 0 END
SequenceOf(entry_number, year_part) ==
    IF MatchesPattern(entry_number, year_part)
    THEN TextToInt(CapturedDigits(entry_number, year_part))
    ELSE 0

\* the maximum itself, the increment forgotten
NextSequence_NoIncrement(foundation_id, rows, year_part) ==
    LET seqs == { SequenceOf(je.entry_number, year_part) :
                    je \in { r \in rows : r.foundation_id = foundation_id } }
    IN  IF seqs = {} THEN 0 ELSE SetMax(seqs)

\* COALESCE(MAX(...), 0) + 1 FROM journal_entries je WHERE je.foundation_id = $1
NextSequence(foundation_id, rows, year_part) ==
    LET seqs == { SequenceOf(je.entry_number, year_part) :
                    je \in { r \in rows : r.foundation_id = foundation_id } }
    IN  (IF seqs = {} THEN 0 ELSE SetMax(seqs)) + 1

generate_entry_number(foundation_id, rows, current_year) ==
    LET year_part     == IntToText(current_year)
        next_sequence == NextSequence(foundation_id, rows, year_part)
        sequence_part == LPAD(IntToText(next_sequence), PadWidth, "0")
    IN  << "J", "E", "-" >> \o year_part \o << "-" >> \o sequence_part

\* Date.now(), as text: the milliseconds since 1970 of the start of the
\* current year (the clock of the model is the year), 13 digits
DateNow(current_year) ==
    IntToText((current_year - 1970) * 31556952) \o << "0", "0", "0" >>

\* `JE-${Date.now()}`
FallbackNumber(now) == << "J", "E", "-" >> \o now

-----------------------------------------------------------------------------
(* Arguments of createJournalEntry *)

LineSpecs == [ account_id : AccountRefs, debit_amount : Amounts,
               credit_amount : Amounts ]

LineLists == UNION { [1..n -> LineSpecs] : n \in 0..MaxLines }

EntryInputs == [ foundation_id : Foundations, line_items : LineLists ]

\* the submissions of concurrent clients: a balanced pair of lines, for any
\* foundation
DebitLine == [ account_id |-> "1010", debit_amount |-> 1, credit_amount |-> 0 ]
CreditLine == [ account_id |-> "1010", debit_amount |-> 0, credit_amount |-> 1 ]
RevenueLine == [ account_id |-> "4010", debit_amount |-> 0, credit_amount |-> 1 ]

ConcurrentInputs ==
    [ foundation_id : Foundations,
      line_items : { << DebitLine, CreditLine >> } ]

NoData == [ foundation_id |-> "", line_items |-> << >> ]
NoArgs == [ foundation_id |-> "", current_year |-> 0, rows |-> {} ]
NoResult == [ success |-> FALSE, error |-> "" ]

\* x || 0
OrZero(x) == IF x = 0 THEN 0 ELSE x

\* line_items.reduce((sum, item) => sum + (item.debit_amount || 0), 0)
RECURSIVE TotalDebit(_)
TotalDebit(items) ==
    IF items = << >> THEN 0
    ELSE TotalDebit(SubSeq(items, 1, Len(items) - 1))
           + OrZero(items[Len(items)].debit_amount)

\* line_items.reduce((sum, item) => sum + (item.credit_amount || 0), 0)
RECURSIVE TotalCredit(_)
TotalCredit(items) ==
    IF items = << >> THEN 0
    ELSE TotalCredit(SubSeq(items, 1, Len(items) - 1))
           + OrZero(items[Len(items)].credit_amount)

Abs(x) == IF x < 0 THEN -x ELSE x

\* the comparison without Math.abs
Unbalanced_NoAbs(items) == TotalDebit(items) - TotalCredit(items) > Tolerance

\* Math.abs(totalDebit - totalCredit) > 0.01
Unbalanced(items) == Abs(TotalDebit(items) - TotalCredit(items)) > Tolerance

\* the map with line_order: index
lineItemsWithEntryId_ZeroBased(id, items) ==
    { [ journal_entry_id |-> id,
        account_id       |-> items[i].account_id,
        debit_amount     |-> OrZero(items[i].debit_amount),
        credit_amount    |-> OrZero(items[i].credit_amount),
        line_order       |-> i - 1 ] : i \in 1..Len(items) }

\* entryData.line_items.map((item, index) => ({ journal_entry_id: entry.id, ... }))
lineItemsWithEntryId(id, items) ==
    { [ journal_entry_id |-> id,
        account_id       |-> items[i].account_id,
        debit_amount     |-> OrZero(items[i].debit_amount),
        credit_amount    |-> OrZero(items[i].credit_amount),
        line_order       |-> i ] : i \in 1..Len(items) }

-----------------------------------------------------------------------------
(* Constraints of the tables: part_002 37-68 *)

\* a table without the UNIQUE constraint
UniqueEntryNumber_Missing(rows, foundation_id, entry_number) == TRUE

\* journal_entries: UNIQUE(foundation_id, entry_number)
UniqueEntryNumber(rows, foundation_id, entry_number) ==
    ~ \E je \in rows : /\ je.foundation_id = foundation_id
                       /\ je.entry_number = entry_number

\* the table without CHECK (debit_amount >= 0) and CHECK (credit_amount >= 0)
LineRowAccepted_NoSignCheck(row) ==
    /\ row.account_id \in AccountIds
    /\ (row.debit_amount > 0 \/ row.credit_amount > 0)
    /\ ~ (row.debit_amount > 0 /\ row.credit_amount > 0)

\* journal_entry_lines: account_id NOT NULL REFERENCES accounts(id), the CHECKs
LineRowAccepted(row) ==
    /\ row.account_id \in AccountIds
    /\ row.debit_amount >= 0
    /\ row.credit_amount >= 0
    /\ (row.debit_amount > 0 \/ row.credit_amount > 0)
    /\ ~ (row.debit_amount > 0 /\ row.credit_amount > 0)

-----------------------------------------------------------------------------
(* Table accounts: part_002 19-32 *)

\* gen_random_uuid() for accounts: the ids in the order they are handed out;
\* the first two are the ids of the accounts the line items refer to
AccountIdPool == << "1010", "4010", "acc-3", "acc-4" >>

\* the account numbers of the chart of accounts (two of them)
AccountNumbers == {"1010", "4010"}

\* the first foundation exists, with its default accounts at balance 0
InitialAccounts ==
    { [ id |-> n, foundation_id |-> "F1", account_number |-> n,
        balance |-> 0, is_active |-> TRUE ] : n \in AccountNumbers }

\* status text DEFAULT 'draft' CHECK (status IN ('draft', 'posted', 'reversed'))
Statuses == {"draft", "posted", "reversed"}

\* a header inserted as posted
NewEntryStatus_Posted == "posted"

\* status: 'draft'
NewEntryStatus == "draft"

\* no direct call of create_default_accounts yet
NotBootstrapped == [ f \in Foundations |-> [ calls |-> 0, error |-> FALSE ] ]

\* { account_id: '', description: '', debit_amount: 0, credit_amount: 0 }
BlankLine == [ account_id |-> "", debit_amount |-> 0, credit_amount |-> 0 ]

\* useState({ ..., line_items: [ blank, blank ] })
InitialForm == [ line_items |-> << BlankLine, BlankLine >> ]

\* no handler of the form has run
NoEvent == [ handler |-> "", index |-> 0, length |-> 0 ]

\* the argument of validateJournalEntry: the list may be missing (undefined)
NoLineItems == [ missing |-> TRUE, lineItems |-> << >> ]
NotValidated == [ isValid |-> FALSE, error |-> "not called" ]

-----------------------------------------------------------------------------
(* State machine *)

Init ==
    /\ year = FirstYear
    /\ journal_entries = {}
    /\ journal_entry_lines = {}
    /\ nextId = 1
    /\ pc = [p \in Clients |-> "idle"]
    /\ entryData = [p \in Clients |-> NoData]
    /\ entryNumber = [p \in Clients |-> NULL]
    /\ entry = [p \in Clients |-> 0]
    /\ result = [p \in Clients |-> NoResult]
    /\ assigned = {}
    /\ generatedThisYear = {}
    /\ numArgs = NoArgs
    /\ numResult = NULL
    /\ accounts = InitialAccounts
    /\ valArgs = NoLineItems
    /\ valResult = NotValidated
    /\ bootstrap = NotBootstrapped
    /\ formData = InitialForm
    /\ formEvent = NoEvent

\* return { success, error }: the locals of the call are gone
Finish(p, success, error) ==
    /\ pc' = [pc EXCEPT ![p] = "done"]
    /\ result' = [result EXCEPT ![p] = [success |-> success, error |-> error]]
    /\ entryData' = [entryData EXCEPT ![p] = NoData]
    /\ entryNumber' = [entryNumber EXCEPT ![p] = NULL]

\* createJournalEntry(entryData), lines 1102-1107: supabase.auth.getUser()
Call(p, inputs) ==
    /\ pc[p] = "idle"
    /\ \E data \in inputs, user \in BOOLEAN :
         IF ~user
         THEN Finish(p, FALSE, "Not authenticated")
         ELSE /\ entryData' = [entryData EXCEPT ![p] = data]
              /\ pc' = [pc EXCEPT ![p] = "rpc"]
              /\ result' = [result EXCEPT ![p] = NoResult]
              /\ UNCHANGED entryNumber
    /\ UNCHANGED << year, journal_entries, journal_entry_lines, nextId, entry,
                    assigned, generatedThisYear, numArgs, numResult,
                    accounts, valArgs, valResult,
                    bootstrap, formData,
                    formEvent >>

\* lines 1109-1120: the rpc, whose error is not read, then the totals and the
\* balance check
GenerateNumber(p) ==
    /\ pc[p] = "rpc"
    /\ \E rpcError \in BOOLEAN :
         LET data == entryData[p]
             number == IF rpcError THEN NULL
                       ELSE generate_entry_number(data.foundation_id,
                                                  journal_entries, year)
         IN  /\ generatedThisYear' =
                    IF rpcError THEN generatedThisYear
                    ELSE generatedThisYear \cup {data.foundation_id}
             /\ IF Unbalanced(data.line_items)
                THEN Finish(p, FALSE, "Journal entry must be balanced")
                ELSE /\ entryNumber' = [entryNumber EXCEPT ![p] = number]
                     /\ pc' = [pc EXCEPT ![p] = "insert_header"]
                     /\ UNCHANGED << result, entryData >>
    /\ UNCHANGED << year, journal_entries, journal_entry_lines, nextId,
                    entry, assigned, numArgs, numResult,
                    accounts, valArgs, valResult,
                    bootstrap, formData,
                    formEvent >>

\* lines 1122-1142: insert the header row
InsertHeader(p) ==
    /\ pc[p] = "insert_header"
    /\ \E storeError \in BOOLEAN :
         LET data == entryData[p]
             number == IF entryNumber[p] # NULL THEN entryNumber[p]
                       ELSE FallbackNumber(DateNow(year))
             row == [ id            |-> nextId,
                      foundation_id |-> data.foundation_id,
                      entry_number  |-> number,
                      total_debit   |-> TotalDebit(data.line_items),
                      total_credit  |-> TotalCredit(data.line_items),
                      status        |-> NewEntryStatus,
                      created_at    |-> year ]
         IN  IF storeError
             THEN /\ Finish(p, FALSE, "store error")
                  /\ UNCHANGED << journal_entries, nextId, entry, assigned >>
             ELSE IF ~ UniqueEntryNumber(journal_entries, data.foundation_id, number)
             THEN /\ Finish(p, FALSE, "duplicate key")
                  /\ UNCHANGED << journal_entries, nextId, entry, assigned >>
             ELSE /\ journal_entries' = journal_entries \cup {row}
                  /\ nextId' = nextId + 1
                  /\ entry' = [entry EXCEPT ![p] = row.id]
                  /\ assigned' = assigned \cup {<< row.foundation_id, number >>}
                  /\ pc' = [pc EXCEPT ![p] = "insert_lines"]
                  /\ UNCHANGED << result, entryData, entryNumber >>
    /\ UNCHANGED << year, journal_entry_lines, generatedThisYear,
                    numArgs, numResult,
                    accounts, valArgs, valResult,
                    bootstrap, formData,
                    formEvent >>

\* lines 1144-1164: insert the line rows in one statement
InsertLines(p) ==
    /\ pc[p] = "insert_lines"
    /\ \E storeError \in BOOLEAN :
         LET rows == lineItemsWithEntryId(entry[p], entryData[p].line_items)
         IN  IF storeError \/ \E r \in rows : ~ LineRowAccepted(r)
             THEN /\ pc' = [pc EXCEPT ![p] = "cleanup"]
                  /\ UNCHANGED << journal_entry_lines, result, entryData,
                                  entryNumber >>
             ELSE /\ journal_entry_lines' = journal_entry_lines \cup rows
                  /\ Finish(p, TRUE, "")
    /\ UNCHANGED << year, journal_entries, nextId, entry, assigned,
                    generatedThisYear, numArgs, numResult,
                    accounts, valArgs, valResult,
                    bootstrap, formData,
                    formEvent >>

\* lines 1158-1162: delete the header; the outcome of the delete is not read
Cleanup(p) ==
    /\ pc[p] = "cleanup"
    /\ \E storeError \in BOOLEAN :
         /\ journal_entries' =
                IF storeError THEN journal_entries
                ELSE { je \in journal_entries : je.id # entry[p] }
         \* ON DELETE CASCADE
         /\ journal_entry_lines' =
                IF storeError THEN journal_entry_lines
                ELSE { l \in journal_entry_lines : l.journal_entry_id # entry[p] }
    /\ Finish(p, FALSE, "line items error")
    /\ UNCHANGED << year, nextId, entry, assigned, generatedThisYear,
                    numArgs, numResult,
                    accounts, valArgs, valResult,
                    bootstrap, formData,
                    formEvent >>

\* getJournalEntries(foundationId), lines 1073-1100: the headers of the
\* foundation, each with its journal_entry_lines embedded.  A query: it
\* changes nothing and may be answered in any state.
getJournalEntries(foundationId) ==
    { [ id |-> je.id,
        entry_number |-> je.entry_number,
        journal_entry_lines |->
            { l \in journal_entry_lines : l.journal_entry_id = je.id } ] :
      je \in { r \in journal_entries : r.foundation_id = foundationId } }

\* CURRENT_DATE passes a year boundary
NewYear ==
    /\ year < FirstYear + MaxTicks
    /\ year' = year + 1
    /\ generatedThisYear' = {}
    /\ UNCHANGED << journal_entries, journal_entry_lines, nextId, pc,
                    entryData, entryNumber, entry, result, assigned,
                    numArgs, numResult,
                    accounts, valArgs, valResult,
                    bootstrap, formData,
                    formEvent >>

\* clients submitting concurrently, one call each
Next ==
    \/ \E p \in Clients : Call(p, ConcurrentInputs)
    \/ \E p \in Clients : GenerateNumber(p)
    \/ \E p \in Clients : InsertHeader(p)
    \/ \E p \in Clients : InsertLines(p)
    \/ \E p \in Clients : Cleanup(p)
    \/ NewYear

Spec == Init /\ [][Next]_vars

\* one call of one client, every submission
NextOne ==
    \/ Call(1, EntryInputs)
    \/ GenerateNumber(1)
    \/ InsertHeader(1)
    \/ InsertLines(1)
    \/ Cleanup(1)
    \/ NewYear

SpecOne == Init /\ [][NextOne]_vars

-----------------------------------------------------------------------------
(* generate_entry_number called directly on a given table *)

\* sequences the entries of a table may carry
SampleSequences == {1, 2, 999999}

\* entry numbers a journal_entries row may carry: numbers of the generated
\* form, a number with an unpadded sequence, and fallback numbers
SampleNumbers ==
    { PatternPrefix(IntToText(y)) \o LPAD(IntToText(n), PadWidth, "0") :
        y \in Years, n \in SampleSequences }
    \cup { PatternPrefix(IntToText(y)) \o << "7" >> : y \in Years }
    \cup { FallbackNumber(DateNow(y)) : y \in Years }

SampleRows == [ foundation_id : Foundations, entry_number : SampleNumbers ]

\* small tables of such rows
SampleTables == { t \in SUBSET SampleRows : Cardinality(t) <= MaxRows }

InitNum ==
    /\ year = FirstYear
    /\ journal_entries = {}
    /\ journal_entry_lines = {}
    /\ nextId = 1
    /\ pc = [p \in Clients |-> "idle"]
    /\ entryData = [p \in Clients |-> NoData]
    /\ entryNumber = [p \in Clients |-> NULL]
    /\ entry = [p \in Clients |-> 0]
    /\ result = [p \in Clients |-> NoResult]
    /\ assigned = {}
    /\ generatedThisYear = {}
    /\ numArgs \in [ foundation_id : Foundations, current_year : Years,
                     rows : SampleTables ]
    /\ numResult = NULL
    /\ accounts = InitialAccounts
    /\ valArgs = NoLineItems
    /\ valResult = NotValidated
    /\ bootstrap = NotBootstrapped
    /\ formData = InitialForm
    /\ formEvent = NoEvent

\* SELECT generate_entry_number(foundation_id)
CallGenerate ==
    /\ numResult = NULL
    /\ numResult' = generate_entry_number(numArgs.foundation_id, numArgs.rows,
                                          numArgs.current_year)
    /\ UNCHANGED << year, journal_entries, journal_entry_lines, nextId,
                    pc, entryData, entryNumber, entry, result, assigned,
                    generatedThisYear, numArgs, accounts, valArgs,
                    valResult,
                    bootstrap, formData,
                    formEvent >>

NextNum == CallGenerate

SpecNum == InitNum /\ [][NextNum]_vars

-----------------------------------------------------------------------------
(* ValidationUtils.validateJournalEntry: validation.ts 175-206 *)

\* Math.abs(totalDebits - totalCredits) > 0.01, in cents
ValidationTolerance == 1

\* lineItems.reduce((sum, item) => sum + (item.debit_amount || 0), 0)
RECURSIVE totalDebits(_)
totalDebits(lineItems) ==
    IF lineItems = << >> THEN 0
    ELSE totalDebits(SubSeq(lineItems, 1, Len(lineItems) - 1))
           + OrZero(lineItems[Len(lineItems)].debit_amount)

\* lineItems.reduce((sum, item) => sum + (item.credit_amount || 0), 0)
RECURSIVE totalCredits(_)
totalCredits(lineItems) ==
    IF lineItems = << >> THEN 0
    ELSE totalCredits(SubSeq(lineItems, 1, Len(lineItems) - 1))
           + OrZero(lineItems[Len(lineItems)].credit_amount)

\* a length test that lets a single line through
TooFewLines_OffByOne(arg) == arg.missing \/ Len(arg.lineItems) < 1

\* !lineItems || lineItems.length < 2
TooFewLines(arg) == arg.missing \/ Len(arg.lineItems) < 2

\* the comparison without Math.abs
DebitsDifferFromCredits_NoAbs(lineItems) ==
    totalDebits(lineItems) - totalCredits(lineItems) > ValidationTolerance

\* Math.abs(totalDebits - totalCredits) > 0.01
DebitsDifferFromCredits(lineItems) ==
    Abs(totalDebits(lineItems) - totalCredits(lineItems)) > ValidationTolerance

\* a test that takes a zero amount for a debit
hasDebit_NonNegative(item) == OrZero(item.debit_amount) >= 0

\* (item.debit_amount || 0) > 0
hasDebit(item) == OrZero(item.debit_amount) > 0

\* a test that takes a zero amount for a credit
hasCredit_NonNegative(item) == OrZero(item.credit_amount) >= 0

\* (item.credit_amount || 0) > 0
hasCredit(item) == OrZero(item.credit_amount) > 0

Invalid(error) == [ isValid |-> FALSE, error |-> error ]
Valid == [ isValid |-> TRUE, error |-> "" ]

\* the loop without the test of the account
RECURSIVE CheckLines_NoAccountTest(_, _)
CheckLines_NoAccountTest(lineItems, i) ==
    IF i > Len(lineItems) THEN Valid
    ELSE LET item == lineItems[i] IN
         IF hasDebit(item) /\ hasCredit(item)
         THEN Invalid("Each line item must have either debit OR credit, not both")
         ELSE IF ~ hasDebit(item) /\ ~ hasCredit(item)
         THEN Invalid("Each line item must have either debit or credit amount")
         ELSE CheckLines_NoAccountTest(lineItems, i + 1)

\* the loop with the account looked at first
RECURSIVE CheckLines_AccountFirst(_, _)
CheckLines_AccountFirst(lineItems, i) ==
    IF i > Len(lineItems) THEN Valid
    ELSE LET item == lineItems[i] IN
         IF item.account_id = ""
         THEN Invalid("All line items must have an account selected")
         ELSE IF hasDebit(item) /\ hasCredit(item)
         THEN Invalid("Each line item must have either debit OR credit, not both")
         ELSE IF ~ hasDebit(item) /\ ~ hasCredit(item)
         THEN Invalid("Each line item must have either debit or credit amount")
         ELSE CheckLines_AccountFirst(lineItems, i + 1)

\* for (const item of lineItems) { ... }, lines 188-203, from the i-th item on
RECURSIVE CheckLines(_, _)
CheckLines(lineItems, i) ==
    IF i > Len(lineItems) THEN Valid
    ELSE LET item == lineItems[i] IN
         IF hasDebit(item) /\ hasCredit(item)
         THEN Invalid("Each line item must have either debit OR credit, not both")
         ELSE IF ~ hasDebit(item) /\ ~ hasCredit(item)
         THEN Invalid("Each line item must have either debit or credit amount")
         ELSE IF item.account_id = ""
         THEN Invalid("All line items must have an account selected")
         ELSE CheckLines(lineItems, i + 1)

validateJournalEntry(arg) ==
    IF TooFewLines(arg)
    THEN Invalid("Journal entry must have at least 2 line items")
    ELSE IF DebitsDifferFromCredits(arg.lineItems)
    THEN Invalid("Debits must equal credits")
    ELSE CheckLines(arg.lineItems, 1)

\* amounts (lineItems: any[]) from -0.01 up to MaxAmount beyond the tolerance,
\* in cents
ValAmounts == (-1)..(ValidationTolerance + MaxAmount)

ValLineSpecs == [ account_id : AccountRefs, debit_amount : ValAmounts,
                  credit_amount : ValAmounts ]

ValLineLists == UNION { [1..n -> ValLineSpecs] : n \in 0..MaxLines }

ValInputs ==
    {NoLineItems} \cup [ missing : {FALSE}, lineItems : ValLineLists ]

InitVal ==
    /\ year = FirstYear
    /\ journal_entries = {}
    /\ journal_entry_lines = {}
    /\ nextId = 1
    /\ pc = [p \in Clients |-> "idle"]
    /\ entryData = [p \in Clients |-> NoData]
    /\ entryNumber = [p \in Clients |-> NULL]
    /\ entry = [p \in Clients |-> 0]
    /\ result = [p \in Clients |-> NoResult]
    /\ assigned = {}
    /\ generatedThisYear = {}
    /\ numArgs = NoArgs
    /\ numResult = NULL
    /\ accounts = InitialAccounts
    /\ valArgs \in ValInputs
    /\ valResult = NotValidated
    /\ bootstrap = NotBootstrapped
    /\ formData = InitialForm
    /\ formEvent = NoEvent

\* ValidationUtils.validateJournalEntry(lineItems)
CallValidate ==
    /\ valResult = NotValidated
    /\ valResult' = validateJournalEntry(valArgs)
    /\ UNCHANGED << year, journal_entries, journal_entry_lines, nextId,
                    pc, entryData, entryNumber, entry, result, assigned,
                    generatedThisYear, numArgs, numResult, accounts, valArgs,
                    bootstrap, formData,
                    formEvent >>

NextVal == CallValidate

SpecVal == InitVal /\ [][NextVal]_vars

-----------------------------------------------------------------------------
(* The ledger: createJournalEntry together with updateJournalEntry,          *)
(* createAccount, updateAccount and create_default_accounts                  *)

\* { ...row, ...updates }: the columns named in updates are overwritten
ApplyUpdates(row, updates) ==
    [ c \in DOMAIN row |-> IF c \in DOMAIN updates THEN updates[c] ELSE row[c] ]

\* the updates argument (any): a status, also one the CHECK refuses, or a total
JournalUpdates ==
    { [ status |-> st ] : st \in Statuses \cup {"void"} }
      \cup { [ total_debit |-> 100 ] }

\* the updates argument (any): the edit row's is_active, or a balance
AccountUpdates ==
    { [ is_active |-> FALSE ] } \cup { [ balance |-> b ] : b \in Amounts \ {0} }

\* the accountData argument (any); the form leaves the balance to its DEFAULT 0
AccountInputs ==
    [ foundation_id : Foundations, account_number : AccountNumbers,
      balance : Amounts ]

\* submissions: a debit of Cash against a credit of Donation Revenue
LedgerInputs ==
    [ foundation_id : {"F1"}, line_items : { << DebitLine, RevenueLine >> } ]

\* the id argument: the ids the submissions can be given, and one of no row
EntryIds == 1..(NumClients + 1)

\* accounts: UNIQUE(foundation_id, account_number)
UniqueAccountNumber(rows, foundation_id, account_number) ==
    ~ \E a \in rows : /\ a.foundation_id = foundation_id
                      /\ a.account_number = account_number

\* updateJournalEntry(id, updates), lines 1170-1190: one UPDATE statement
updateJournalEntry(id, updates) ==
    /\ \E storeError \in BOOLEAN :
         LET rows == { je \in journal_entries : je.id = id }
             refused == /\ "status" \in DOMAIN updates
                        /\ updates.status \notin Statuses
         IN  journal_entries' =
                IF storeError \/ refused THEN journal_entries
                ELSE (journal_entries \ rows)
                       \cup { ApplyUpdates(je, updates) : je \in rows }
    /\ UNCHANGED << year, journal_entry_lines, nextId, pc, entryData,
                    entryNumber, entry, result, assigned, generatedThisYear,
                    numArgs, numResult, accounts, valArgs, valResult,
                    bootstrap, formData,
                    formEvent >>

\* updateAccount(id, updates), lines 1033-1053: one UPDATE statement
updateAccount(id, updates) ==
    /\ \E storeError \in BOOLEAN :
         LET rows == { a \in accounts : a.id = id }
         IN  accounts' =
                IF storeError THEN accounts
                ELSE (accounts \ rows)
                       \cup { ApplyUpdates(a, updates) : a \in rows }
    /\ UNCHANGED << year, journal_entries, journal_entry_lines, nextId, pc,
                    entryData, entryNumber, entry, result, assigned,
                    generatedThisYear, numArgs, numResult, valArgs, valResult,
                    bootstrap, formData,
                    formEvent >>

\* createAccount(accountData), lines 1011-1031: one INSERT statement
createAccount(accountData) ==
    /\ \E storeError \in BOOLEAN :
         LET row == [ id             |-> AccountIdPool[Cardinality(accounts) + 1],
                      foundation_id  |-> accountData.foundation_id,
                      account_number |-> accountData.account_number,
                      balance        |-> accountData.balance,
                      is_active      |-> TRUE ]
         IN  accounts' =
                IF \/ storeError
                   \/ ~ UniqueAccountNumber(accounts, accountData.foundation_id,
                                            accountData.account_number)
                THEN accounts
                ELSE accounts \cup {row}
    /\ UNCHANGED << year, journal_entries, journal_entry_lines, nextId, pc,
                    entryData, entryNumber, entry, result, assigned,
                    generatedThisYear, numArgs, numResult, valArgs, valResult,
                    bootstrap, formData,
                    formEvent >>

\* the statement without its ON CONFLICT clause
OnConflictDoNothing_Absent == FALSE

\* ON CONFLICT (foundation_id, account_number) DO NOTHING
OnConflictDoNothing == TRUE

\* ON CONFLICT (foundation_id, account_number) DO UPDATE SET balance = 0
RECURSIVE InsertDefaults_Upsert(_, _, _)
InsertDefaults_Upsert(rows, foundation_id, numbers) ==
    IF numbers = {} THEN rows
    ELSE LET n   == CHOOSE x \in numbers : TRUE
             old == { a \in rows : /\ a.foundation_id = foundation_id
                                   /\ a.account_number = n }
             row == [ id             |-> AccountIdPool[Cardinality(rows) + 1],
                      foundation_id  |-> foundation_id,
                      account_number |-> n,
                      balance        |-> 0,
                      is_active      |-> TRUE ]
         IN  InsertDefaults_Upsert(
                 IF old = {} THEN rows \cup {row}
                 ELSE (rows \ old) \cup { [a EXCEPT !.balance = 0] : a \in old },
                 foundation_id, numbers \ {n})

\* INSERT INTO accounts ... VALUES ... ON CONFLICT DO NOTHING, for the account
\* numbers still to be inserted
RECURSIVE InsertDefaults(_, _, _)
InsertDefaults(rows, foundation_id, numbers) ==
    IF numbers = {} THEN rows
    ELSE LET n   == CHOOSE x \in numbers : TRUE
             row == [ id             |-> AccountIdPool[Cardinality(rows) + 1],
                      foundation_id  |-> foundation_id,
                      account_number |-> n,
                      balance        |-> 0,
                      is_active      |-> TRUE ]
         IN  InsertDefaults(
                 IF UniqueAccountNumber(rows, foundation_id, n)
                 THEN rows \cup {row} ELSE rows,
                 foundation_id, numbers \ {n})

\* the INSERT statement of create_default_accounts: the table after it, and
\* whether it raised (a unique violation aborts the statement)
DefaultAccountsStatement(rows, foundation_id) ==
    IF /\ ~ OnConflictDoNothing
       /\ \E n \in AccountNumbers : ~ UniqueAccountNumber(rows, foundation_id, n)
    THEN [ rows |-> rows, error |-> TRUE ]
    ELSE [ rows  |-> InsertDefaults(rows, foundation_id, AccountNumbers),
           error |-> FALSE ]

\* create_default_accounts(foundation_id): broad_fog.sql 14-64
create_default_accounts(foundation_id) ==
    /\ accounts' = DefaultAccountsStatement(accounts, foundation_id).rows
    /\ UNCHANGED << year, journal_entries, journal_entry_lines, nextId, pc,
                    entryData, entryNumber, entry, result, assigned,
                    generatedThisYear, numArgs, numResult, valArgs, valResult,
                    bootstrap, formData,
                    formEvent >>

\* one submission, and any number of the other calls in between its steps
NextLedger ==
    \/ Call(1, LedgerInputs)
    \/ GenerateNumber(1)
    \/ InsertHeader(1)
    \/ InsertLines(1)
    \/ Cleanup(1)
    \/ \E id \in EntryIds, updates \in JournalUpdates :
          updateJournalEntry(id, updates)
    \/ \E id \in AccountIds, updates \in AccountUpdates :
          updateAccount(id, updates)
    \/ \E accountData \in AccountInputs : createAccount(accountData)
    \/ \E f \in Foundations : create_default_accounts(f)

SpecLedger == Init /\ [][NextLedger]_vars

-----------------------------------------------------------------------------
(* createJournalEntry with amounts of either sign (entryData: any) *)

\* amounts from -0.01, in cents
SignedAmounts == (-1)..MaxAmount

SignedLineLists ==
    UNION { [1..n -> [ account_id : {"1010"}, debit_amount : SignedAmounts,
                       credit_amount : SignedAmounts ]] : n \in 0..MaxLines }

SignedInputs == [ foundation_id : {"F1"}, line_items : SignedLineLists ]

NextSigned ==
    \/ Call(1, SignedInputs)
    \/ GenerateNumber(1)
    \/ InsertHeader(1)
    \/ InsertLines(1)
    \/ Cleanup(1)

SpecSigned == Init /\ [][NextSigned]_vars

-----------------------------------------------------------------------------
(* create_default_accounts called directly, any foundation, between          *)
(* createAccount and updateAccount calls                                     *)

MaxBootCalls == 2

\* SELECT create_default_accounts(foundation_id)
CallBootstrap(foundation_id) ==
    /\ bootstrap[foundation_id].calls < MaxBootCalls
    /\ LET st == DefaultAccountsStatement(accounts, foundation_id)
       IN  /\ accounts' = st.rows
           /\ bootstrap' =
                 [bootstrap EXCEPT ![foundation_id] =
                     [ calls |-> @.calls + 1, error |-> @.error \/ st.error ]]
    /\ UNCHANGED << year, journal_entries, journal_entry_lines, nextId, pc,
                    entryData, entryNumber, entry, result, assigned,
                    generatedThisYear, numArgs, numResult, valArgs, valResult,
                    formData,
                    formEvent >>

NextBoot ==
    \/ \E accountData \in AccountInputs : createAccount(accountData)
    \/ \E id \in AccountIds, updates \in AccountUpdates :
          updateAccount(id, updates)
    \/ \E f \in Foundations : CallBootstrap(f)

SpecBoot == Init /\ [][NextBoot]_vars

-----------------------------------------------------------------------------
(* generate_entry_number, count-based: part_002 293-309, the older           *)
(* definition, with entries inserted under its numbers and deleted           *)

MaxEntries == 3

\* the count itself, the increment forgotten
NextCount_NoIncrement(foundation_id, rows, current_year) ==
    Cardinality({ je \in rows : /\ je.foundation_id = foundation_id
                                /\ je.created_at = current_year })

\* COUNT(*) + 1 FROM journal_entries je WHERE je.foundation_id = $1
\*   AND EXTRACT(YEAR FROM je.created_at) = EXTRACT(YEAR FROM CURRENT_DATE)
NextCount(foundation_id, rows, current_year) ==
    Cardinality({ je \in rows : /\ je.foundation_id = foundation_id
                                /\ je.created_at = current_year }) + 1

generate_entry_number_count(foundation_id, rows, current_year) ==
    LET year_part     == IntToText(current_year)
        sequence_part == LPAD(IntToText(NextCount(foundation_id, rows,
                                                  current_year)),
                              PadWidth, "0")
    IN  << "J", "E", "-" >> \o year_part \o << "-" >> \o sequence_part

\* SELECT generate_entry_number(foundation_id)
CountedGenerate(foundation_id) ==
    /\ numResult = NULL
    /\ nextId <= MaxEntries
    /\ numArgs' = [ foundation_id |-> foundation_id, current_year |-> year,
                    rows |-> {} ]
    /\ numResult' = generate_entry_number_count(foundation_id, journal_entries,
                                                year)
    /\ UNCHANGED << year, journal_entries, journal_entry_lines, nextId, pc,
                    entryData, entryNumber, entry, result, assigned,
                    generatedThisYear, accounts, valArgs, valResult,
                    bootstrap, formData,
                    formEvent >>

\* INSERT INTO journal_entries with the number generated, refused by
\* UNIQUE(foundation_id, entry_number) when the number is taken
CountedInsert ==
    /\ numResult # NULL
    /\ LET row == [ id            |-> nextId,
                    foundation_id |-> numArgs.foundation_id,
                    entry_number  |-> numResult,
                    total_debit   |-> 0,
                    total_credit  |-> 0,
                    status        |-> NewEntryStatus,
                    created_at    |-> year ]
       IN  IF UniqueEntryNumber(journal_entries, row.foundation_id,
                                row.entry_number)
           THEN /\ journal_entries' = journal_entries \cup {row}
                /\ nextId' = nextId + 1
           ELSE UNCHANGED << journal_entries, nextId >>
    /\ numResult' = NULL
    /\ numArgs' = NoArgs
    /\ UNCHANGED << year, journal_entry_lines, pc, entryData, entryNumber,
                    entry, result, assigned, generatedThisYear, accounts,
                    valArgs, valResult, bootstrap, formData,
                    formEvent >>

\* DELETE FROM journal_entries WHERE id = $1
DeleteEntry(id) ==
    /\ numResult = NULL
    /\ \E je \in journal_entries : je.id = id
    /\ journal_entries' = { je \in journal_entries : je.id # id }
    /\ UNCHANGED << year, journal_entry_lines, nextId, pc, entryData,
                    entryNumber, entry, result, assigned, generatedThisYear,
                    numArgs, numResult, accounts, valArgs, valResult,
                    bootstrap, formData,
                    formEvent >>

NextCounted ==
    \/ \E f \in Foundations : CountedGenerate(f)
    \/ CountedInsert
    \/ \E id \in 1..MaxEntries : DeleteEntry(id)
    \/ NewYear

SpecCounted == Init /\ [][NextCounted]_vars

-----------------------------------------------------------------------------
(* JournalEntryForm: the line items of the creation form                     *)
(* BookkeepingModule.tsx 553-562, 606-629                                    *)

MaxFormLines == 3

\* the form fields of a line and values the inputs give them: the account
\* select, and the amount inputs left empty or filled in
FieldValues ==
    ({"account_id"} \X AccountRefs)
        \cup ({"debit_amount", "credit_amount"} \X {0, MaxAmount})

\* items.filter((_, i) => i !== index), index counted from 0
FilterOutIndex(items, index) ==
    IF index >= Len(items)
    THEN items
    ELSE [ i \in 1..(Len(items) - 1) |->
             IF i <= index THEN items[i] ELSE items[i + 1] ]

\* the guard letting a form of two lines shrink
CanRemove_AtTwo(line_items) == Len(line_items) >= 2

\* if (formData.line_items.length > 2)
CanRemove(line_items) == Len(line_items) > 2

addLineItem ==
    /\ Len(formData.line_items) < MaxFormLines
    /\ formData' = [ formData EXCEPT
                       !.line_items = Append(@, BlankLine) ]
    /\ formEvent' = [ handler |-> "addLineItem", index |-> 0,
                      length |-> 0 ]
    /\ UNCHANGED << year, journal_entries, journal_entry_lines, nextId, pc,
                    entryData, entryNumber, entry, result, assigned,
                    generatedThisYear, numArgs, numResult, accounts, valArgs,
                    valResult, bootstrap >>

removeLineItem(index) ==
    /\ IF CanRemove(formData.line_items)
       THEN formData' = [ formData EXCEPT
                            !.line_items = FilterOutIndex(@, index) ]
       ELSE UNCHANGED formData
    /\ formEvent' = [ handler |-> "removeLineItem", index |-> index,
                      length |-> Len(formData.line_items) ]
    /\ UNCHANGED << year, journal_entries, journal_entry_lines, nextId, pc,
                    entryData, entryNumber, entry, result, assigned,
                    generatedThisYear, numArgs, numResult, accounts, valArgs,
                    valResult, bootstrap >>

updateLineItem(index, field, value) ==
    /\ formData' = [ formData EXCEPT
                       !.line_items =
                           [ i \in 1..Len(@) |->
                               IF i = index + 1
                               THEN [ @[i] EXCEPT ![field] = value ]
                               ELSE @[i] ] ]
    /\ formEvent' = [ handler |-> "updateLineItem", index |-> index,
                      length |-> 0 ]
    /\ UNCHANGED << year, journal_entries, journal_entry_lines, nextId, pc,
                    entryData, entryNumber, entry, result, assigned,
                    generatedThisYear, numArgs, numResult, accounts, valArgs,
                    valResult, bootstrap >>

NextForm ==
    \/ addLineItem
    \/ \E index \in 0..(MaxFormLines - 1) : removeLineItem(index)
    \/ \E index \in 0..(MaxFormLines - 1) : \E fv \in FieldValues :
          updateLineItem(index, fv[1], fv[2])

SpecForm == Init /\ [][NextForm]_vars

-----------------------------------------------------------------------------
(* Notions of the specification, stated independently of the code above *)

\* n written with at least `width` digits, zeros on the left
ZeroPadded(n, width) ==
    LET t == IntToText(n)
    IN  IF Len(t) >= width THEN t ELSE [i \in 1..(width - Len(t)) |-> "0"] \o t

\* JE-<year>-<6-digit sequence>
NumberText(y, n) ==
    << "J", "E", "-" >> \o IntToText(y) \o << "-" >> \o ZeroPadded(n, 6)

\* JE-YYYY-NNNNNN
WellFormedNumber(t) ==
    /\ Len(t) = 14
    /\ SubSeq(t, 1, 3) = << "J", "E", "-" >>
    /\ \A i \in 4..7 : IsDigit(t[i])
    /\ t[8] = "-"
    /\ \A i \in 9..14 : IsDigit(t[i])

\* the sequences of the foundation's numbers of the form JE-<year>-<digits>
SequencesOfYear(foundation_id, rows, y) ==
    { TextToInt(SubSeq(r.entry_number, 9, Len(r.entry_number))) :
        r \in { x \in rows :
                  /\ x.foundation_id = foundation_id
                  /\ Len(x.entry_number) > 8
                  /\ SubSeq(x.entry_number, 1, 8) =
                        << "J", "E", "-" >> \o IntToText(y) \o << "-" >>
                  /\ \A i \in 9..Len(x.entry_number) : IsDigit(x.entry_number[i]) } }

LargestSequence(foundation_id, rows, y) ==
    LET S == SequencesOfYear(foundation_id, rows, y)
    IN  IF S = {} THEN 0 ELSE CHOOSE m \in S : \A k \in S : k <= m

RECURSIVE SumOf(_, _)
SumOf(items, side) ==
    IF items = << >> THEN 0 ELSE side[Head(items)] + SumOf(Tail(items), side)

\* |sum(debit) - sum(credit)| > 0.01
OutOfBalance(items) ==
    LET d == SumOf(items, [l \in LineSpecs |-> l.debit_amount])
        c == SumOf(items, [l \in LineSpecs |-> l.credit_amount])
    IN  (d - c > 1) \/ (c - d > 1)

\* the rows a call has left in the two tables
RowsOfCall(p) ==
    { je \in journal_entries : je.id = entry[p] }
      \cup { l \in journal_entry_lines : l.journal_entry_id = entry[p] }

\* client p returns from the rpc with a number
Numbered(p) ==
    /\ pc[p] = "rpc"
    /\ pc'[p] = "insert_header"
    /\ entryNumber'[p] # NULL

\* the sum of one column over the lines
RECURSIVE SideTotal(_, _)
SideTotal(items, column) ==
    IF items = << >> THEN 0
    ELSE Head(items)[column] + SideTotal(Tail(items), column)

\* |sum(debit) - sum(credit)| > 0.01, for any amounts
TotalsDiffer(items) ==
    LET d == SideTotal(items, "debit_amount")
        c == SideTotal(items, "credit_amount")
    IN  (d - c > 1) \/ (c - d > 1)

\* both sides strictly positive
MixedLine(l) == l.debit_amount > 0 /\ l.credit_amount > 0

\* exactly one side strictly positive, the other zero
OneSidedLine(l) ==
    \/ (l.debit_amount > 0 /\ l.credit_amount = 0)
    \/ (l.debit_amount = 0 /\ l.credit_amount > 0)

\* validateJournalEntry has returned
Validated == valResult # NotValidated

\* the line items a call has left in journal_entry_lines
LinesOfCall(p) == { l \in journal_entry_lines : l.journal_entry_id = entry[p] }

\* the entry goes from draft to posted in this step
BecomesPosted(je) ==
    /\ je.status = "draft"
    /\ \E after \in journal_entries' : after.id = je.id /\ after.status = "posted"

\* debit minus credit over a set of lines
RECURSIVE NetOfLines(_)
NetOfLines(lines) ==
    IF lines = {} THEN 0
    ELSE LET l == CHOOSE x \in lines : TRUE
         IN  l.debit_amount - l.credit_amount + NetOfLines(lines \ {l})

\* the lines of an entry that reference an account
LinesOn(je, account_id) ==
    { l \in journal_entry_lines :
        l.journal_entry_id = je.id /\ l.account_id = account_id }

\* neither side strictly positive
EmptyLine(l) == ~ (l.debit_amount > 0) /\ ~ (l.credit_amount > 0)

\* exactly one side strictly positive, whatever the sign of the other
OnePositiveSide(l) ==
    (l.debit_amount > 0 /\ ~ (l.credit_amount > 0))
        \/ (~ (l.debit_amount > 0) /\ l.credit_amount > 0)

\* the foundation's entries created in year y
EntriesOfYear(foundation_id, rows, y) ==
    { je \in rows : je.foundation_id = foundation_id /\ je.created_at = y }

\* the numbers of the foundation's entries of the year are JE-<year>-000001
\* to JE-<year>-<n>, no gap
GapFree(foundation_id, rows, y) ==
    { je.entry_number : je \in EntriesOfYear(foundation_id, rows, y) }
        = { NumberText(y, k) :
              k \in 1..Cardinality(EntriesOfYear(foundation_id, rows, y)) }

\* this step deletes entry d, an entry of the current year that is not the
\* highest-numbered of its foundation's entries of the year
DeletesBelowHighest(d) ==
    /\ d \in journal_entries
    /\ journal_entries' = journal_entries \ {d}
    /\ d.created_at = year
    /\ \E je \in EntriesOfYear(d.foundation_id, journal_entries, year) :
          TextToInt(SubSeq(je.entry_number, 9, 14))
              > TextToInt(SubSeq(d.entry_number, 9, 14))

\* what the count-based function returns for the foundation after this step
\* is the number of an entry of the foundation that exists after this step
NextCountedNumberExists(foundation_id) ==
    \E je \in journal_entries' :
        /\ je.foundation_id = foundation_id
        /\ je.entry_number =
              generate_entry_number_count(foundation_id, journal_entries', year')

\* after is before with exactly the line at index (counted from 0) taken out
LineTakenOut(before, after, index) ==
    /\ Len(after) = Len(before) - 1
    /\ \A i \in 1..Len(after) :
          after[i] = IF i <= index THEN before[i] ELSE before[i + 1]

-----------------------------------------------------------------------------
(* Claims *)

\* C1: when the header was inserted and the insert of the lines fails, the
\* call ends with an error and no row of the call is left in journal_entries
\* or journal_entry_lines.
C1_NoOrphanHeader ==
    \A p \in Clients :
        (pc[p] = "done" /\ result[p].error = "line items error")
            => (~ result[p].success /\ RowsOfCall(p) = {})

\* C2: no read observes a partial write: a header that getJournalEntries
\* returns while its call is between the header insert and its return carries
\* all the line items that were submitted with it.
C2_NoPartialRead ==
    \A p \in Clients : \A f \in Foundations : \A e \in getJournalEntries(f) :
        (pc[p] \in {"insert_lines", "cleanup"} /\ e.id = entry[p])
            => Cardinality(e.journal_entry_lines) = Len(entryData[p].line_items)

\* C3: no two persisted journal entries of one foundation carry the same
\* entry_number, under every interleaving of concurrent submissions.
C3_UniqueEntryNumbers ==
    \A a \in journal_entries : \A b \in journal_entries :
        (a.foundation_id = b.foundation_id /\ a.entry_number = b.entry_number)
            => a.id = b.id

\* C3 witness: two concurrent submissions were given the same number; one
\* header is persisted, the other was rejected.
C3_Witness ==
    \E p \in Clients : \E q \in Clients \ {p} : \E je \in journal_entries :
        /\ pc[p] = "done"
        /\ result[p].error = "duplicate key"
        /\ pc[q] = "insert_lines"
        /\ je.id = entry[q]
        /\ WellFormedNumber(je.entry_number)

\* C4: two concurrent submissions for one foundation never hold the same
\* number from the numbering step.
C4_NoSharedNumber ==
    \A p \in Clients : \A q \in Clients \ {p} :
        ( /\ pc[p] = "insert_header"
          /\ pc[q] = "insert_header"
          /\ entryData[p].foundation_id = entryData[q].foundation_id
          /\ entryNumber[p] # NULL )
            => entryNumber[p] # entryNumber[q]

C6_NextNumber ==
    numResult # NULL =>
        numResult = NumberText(numArgs.current_year,
                               1 + LargestSequence(numArgs.foundation_id,
                                                   numArgs.rows,
                                                   numArgs.current_year))

\* C7: the first number generated for a foundation in a year has sequence 1,
\* whatever the numbers of its entries of earlier years.
C7_RestartsEveryYear ==
    [][ \A p \in Clients :
          (Numbered(p) /\ entryData[p].foundation_id \notin generatedThisYear)
              => entryNumber'[p] = NumberText(year, 1) ]_vars

\* C7 witness: after a year change a client holds sequence 1 of the new year
\* while an entry of its foundation carries a number of the year before.
C7_Witness ==
    \E p \in Clients : \E je \in journal_entries :
        /\ year > FirstYear
        /\ pc[p] = "insert_header"
        /\ entryNumber[p] = NumberText(year, 1)
        /\ je.foundation_id = entryData[p].foundation_id
        /\ je.entry_number = NumberText(year - 1, 1)

\* C8: every persisted journal entry has an entry_number of the form
\* JE-YYYY-NNNNNN, also when the rpc returned no value.
C8_EntryNumberFormat ==
    \A je \in journal_entries : WellFormedNumber(je.entry_number)

\* C9: a header insert rejected for a colliding entry number does not end the
\* call: the number is computed afresh and the insert retried.  (The call
\* keeps no count of attempts, so every rejection is a first rejection.)
C9_RetriesOnConflict ==
    [][ \A p \in Clients :
          ~ ( /\ pc[p] = "insert_header"
              /\ pc'[p] = "done"
              /\ result'[p].error = "duplicate key" ) ]_vars

\* C10: a submission with |sum(debit) - sum(credit)| > 0.01 ends with an error
\* and no step of its call changes journal_entries or journal_entry_lines.
C10_UnbalancedRejected ==
    [][ \A p \in Clients :
          ( /\ pc[p] \notin {"idle", "done"}
            /\ OutOfBalance(entryData[p].line_items)
            /\ pc'[p] # pc[p] )
              => /\ pc'[p] = "done"
                 /\ ~ result'[p].success
                 /\ journal_entries' = journal_entries
                 /\ journal_entry_lines' = journal_entry_lines ]_vars

\* C10 witness: a call has ended with the balance error.
C10_Witness ==
    \E p \in Clients :
        /\ pc[p] = "done"
        /\ result[p].error = "Journal entry must be balanced"
        /\ ~ result[p].success
        /\ entry[p] = 0

\* C11: every journal entry createJournalEntry reports as created has at
\* least 2 line items, whatever the submitted list.
C11_AtLeastTwoLines ==
    \A p \in Clients :
        (pc[p] = "done" /\ result[p].success)
            => Cardinality(LinesOfCall(p)) >= 2

\* C17: for a missing list and for every list of fewer than 2 line items,
\* whatever their amounts, validateJournalEntry returns the error 'Journal
\* entry must have at least 2 line items'.
C17_TooFewLines ==
    (Validated /\ (valArgs.missing \/ Len(valArgs.lineItems) < 2))
        => /\ ~ valResult.isValid
           /\ valResult.error = "Journal entry must have at least 2 line items"

\* C17 witness: a single line with an amount beyond the tolerance was
\* validated and rejected for the number of lines.
C17_Witness ==
    /\ Validated
    /\ ~ valArgs.missing
    /\ Len(valArgs.lineItems) = 1
    /\ TotalsDiffer(valArgs.lineItems)
    /\ valResult.error = "Journal entry must have at least 2 line items"

\* C18 as claimed: for every list of line items with
\* |sum(debit) - sum(credit)| > 0.01, validateJournalEntry returns the error
\* 'Debits must equal credits'.
C18_UnbalancedAlways ==
    (Validated /\ TotalsDiffer(valArgs.lineItems))
        => /\ ~ valResult.isValid
           /\ valResult.error = "Debits must equal credits"

\* C18 as amended: for every list of at least 2 line items with
\* |sum(debit) - sum(credit)| > 0.01, validateJournalEntry returns the error
\* 'Debits must equal credits'.
C18_UnbalancedOfTwoOrMore ==
    (Validated /\ Len(valArgs.lineItems) >= 2 /\ TotalsDiffer(valArgs.lineItems))
        => /\ ~ valResult.isValid
           /\ valResult.error = "Debits must equal credits"

\* C18 witness: two lines with more credit than debit were validated and
\* rejected as unbalanced.
C18_Witness ==
    /\ Validated
    /\ Len(valArgs.lineItems) = 2
    /\ SideTotal(valArgs.lineItems, "credit_amount")
         - SideTotal(valArgs.lineItems, "debit_amount") > 1
    /\ valResult.error = "Debits must equal credits"

\* C19 as claimed: for every list that contains a line with both amounts
\* strictly positive, validateJournalEntry returns the error 'Each line item
\* must have either debit OR credit, not both', whether or not the totals
\* balance and also when that line is the only line.
C19_MixedSidesAlways ==
    (Validated /\ \E i \in 1..Len(valArgs.lineItems) :
                     MixedLine(valArgs.lineItems[i]))
        => /\ ~ valResult.isValid
           /\ valResult.error =
                 "Each line item must have either debit OR credit, not both"

\* C19 as amended: for every list of at least 2 lines whose totals are equal
\* within 0.01, and in which a line with both amounts strictly positive comes
\* before every line with no positive amount and every one-sided line without
\* an account, validateJournalEntry returns that error.
C19_MixedSidesFirst ==
    ( /\ Validated
      /\ Len(valArgs.lineItems) >= 2
      /\ ~ TotalsDiffer(valArgs.lineItems)
      /\ \E i \in 1..Len(valArgs.lineItems) :
            /\ MixedLine(valArgs.lineItems[i])
            /\ \A j \in 1..(i - 1) :
                  \/ MixedLine(valArgs.lineItems[j])
                  \/ /\ OneSidedLine(valArgs.lineItems[j])
                     /\ valArgs.lineItems[j].account_id # "" )
        => /\ ~ valResult.isValid
           /\ valResult.error =
                 "Each line item must have either debit OR credit, not both"

\* C19 witness: the second of two lines has both amounts positive and no
\* account, the first is one-sided, and the list was rejected for the mixed
\* line.
C19_Witness ==
    /\ Validated
    /\ Len(valArgs.lineItems) = 2
    /\ OneSidedLine(valArgs.lineItems[1])
    /\ MixedLine(valArgs.lineItems[2])
    /\ valArgs.lineItems[2].account_id = ""
    /\ valResult.error =
          "Each line item must have either debit OR credit, not both"

\* C20: for every list of at least 2 lines, each with an account and exactly
\* one strictly positive amount, and with sum(debit) = sum(credit),
\* validateJournalEntry returns valid.
C20_ValidAccepted ==
    ( /\ Validated
      /\ ~ valArgs.missing
      /\ Len(valArgs.lineItems) >= 2
      /\ \A i \in 1..Len(valArgs.lineItems) :
            /\ valArgs.lineItems[i].account_id # ""
            /\ OneSidedLine(valArgs.lineItems[i])
      /\ SideTotal(valArgs.lineItems, "debit_amount")
            = SideTotal(valArgs.lineItems, "credit_amount") )
        => valResult.isValid

\* C20 witness: a debit line and a credit line of the same amount, both with
\* an account, were validated and accepted.
C20_Witness ==
    /\ Validated
    /\ Len(valArgs.lineItems) = 2
    /\ valArgs.lineItems[1].debit_amount > 0
    /\ valArgs.lineItems[2].credit_amount = valArgs.lineItems[1].debit_amount
    /\ \A i \in 1..2 : valArgs.lineItems[i].account_id # ""
                         /\ OneSidedLine(valArgs.lineItems[i])
    /\ valResult.isValid

\* C12: in every reachable state every persisted journal entry has
\* total_debit equal to total_credit within 0.01.
C12_TotalsBalanced ==
    \A je \in journal_entries :
        /\ je.total_debit - je.total_credit <= 1
        /\ je.total_credit - je.total_debit <= 1

\* C13: no step changes a field of a journal entry whose status is
\* 'reversed'.
C13_ReversedImmutable ==
    [][ \A je \in journal_entries :
          je.status = "reversed" => je \in journal_entries' ]_vars

\* C14: in the step in which a journal entry goes from draft to posted, the
\* balance of every account its lines reference changes by the net amount of
\* those lines (as an increase or as a decrease, by the account's side).
C14_AppliedOnPosting ==
    [][ \A je \in journal_entries :
          BecomesPosted(je) =>
            \A a \in accounts : \E b \in accounts' :
                /\ b.id = a.id
                /\ \/ b.balance - a.balance = NetOfLines(LinesOn(je, a.id))
                   \/ a.balance - b.balance = NetOfLines(LinesOn(je, a.id)) ]_vars

\* C15: the balance of an existing account changes only in a step in which a
\* journal entry with a line on that account becomes posted.
C15_BalanceOnlyByPosting ==
    [][ \A a \in accounts : \A b \in accounts' :
          (b.id = a.id /\ b.balance # a.balance)
              => \E je \in journal_entries :
                    BecomesPosted(je) /\ LinesOn(je, a.id) # {} ]_vars

C21_EmptySideAlways ==
    ( /\ Validated
      /\ Len(valArgs.lineItems) >= 2
      /\ ~ TotalsDiffer(valArgs.lineItems)
      /\ \A i \in 1..Len(valArgs.lineItems) : ~ MixedLine(valArgs.lineItems[i])
      /\ \E i \in 1..Len(valArgs.lineItems) : EmptyLine(valArgs.lineItems[i]) )
        => /\ ~ valResult.isValid
           /\ valResult.error =
                 "Each line item must have either debit or credit amount"

\* C21 as amended: the same, when every line before the first line with
\* neither amount positive has an account.
C21_EmptySideFirst ==
    ( /\ Validated
      /\ Len(valArgs.lineItems) >= 2
      /\ ~ TotalsDiffer(valArgs.lineItems)
      /\ \A i \in 1..Len(valArgs.lineItems) : ~ MixedLine(valArgs.lineItems[i])
      /\ \E i \in 1..Len(valArgs.lineItems) :
            /\ EmptyLine(valArgs.lineItems[i])
            /\ \A j \in 1..(i - 1) : valArgs.lineItems[j].account_id # "" )
        => /\ ~ valResult.isValid
           /\ valResult.error =
                 "Each line item must have either debit or credit amount"

\* C21 witness: the second of two lines has no amount and no account, the
\* first is one-sided with an account, and the list was rejected for the
\* empty line.
C21_Witness ==
    /\ Validated
    /\ Len(valArgs.lineItems) = 2
    /\ OneSidedLine(valArgs.lineItems[1])
    /\ valArgs.lineItems[1].account_id # ""
    /\ EmptyLine(valArgs.lineItems[2])
    /\ valArgs.lineItems[2].account_id = ""
    /\ valResult.error = "Each line item must have either debit or credit amount"

\* C22: for every list of at least 2 lines, balanced within 0.01, in which
\* every line has exactly one strictly positive amount and some line has no
\* account, validateJournalEntry returns the error 'All line items must have
\* an account selected'.
C22_MissingAccount ==
    ( /\ Validated
      /\ Len(valArgs.lineItems) >= 2
      /\ ~ TotalsDiffer(valArgs.lineItems)
      /\ \A i \in 1..Len(valArgs.lineItems) :
            OnePositiveSide(valArgs.lineItems[i])
      /\ \E i \in 1..Len(valArgs.lineItems) :
            valArgs.lineItems[i].account_id = "" )
        => /\ ~ valResult.isValid
           /\ valResult.error = "All line items must have an account selected"

\* C22 witness: a debit and a credit of the same amount, the credit without
\* an account, were validated and rejected for the account.
C22_Witness ==
    /\ Validated
    /\ Len(valArgs.lineItems) = 2
    /\ valArgs.lineItems[1].debit_amount > 0
    /\ valArgs.lineItems[2].credit_amount = valArgs.lineItems[1].debit_amount
    /\ \A i \in 1..2 : OneSidedLine(valArgs.lineItems[i])
    /\ valArgs.lineItems[1].account_id # ""
    /\ valArgs.lineItems[2].account_id = ""
    /\ valResult.error = "All line items must have an account selected"

\* C28: whenever validateJournalEntry returns valid, every line of the input
\* has debit_amount >= 0 and credit_amount >= 0 and exactly one of the two
\* strictly positive.
C28_ValidHasNoNegativeAmount ==
    (Validated /\ valResult.isValid)
        => \A i \in 1..Len(valArgs.lineItems) :
              /\ valArgs.lineItems[i].debit_amount >= 0
              /\ valArgs.lineItems[i].credit_amount >= 0
              /\ OnePositiveSide(valArgs.lineItems[i])

\* C23: in every reachable state every persisted journal entry line has
\* exactly one of debit_amount and credit_amount strictly positive and
\* neither negative.
C23_PersistedLinesOneSided ==
    \A l \in journal_entry_lines :
        /\ l.debit_amount >= 0
        /\ l.credit_amount >= 0
        /\ OnePositiveSide(l)

\* C23 witness: a submission within the tolerance that has a line with a
\* negative amount had its line insert refused, and no line is persisted.
C23_Witness ==
    /\ pc[1] = "cleanup"
    /\ \E i \in 1..Len(entryData[1].line_items) :
          /\ entryData[1].line_items[i].debit_amount < 0
          /\ entryData[1].line_items[i].credit_amount > 0
    /\ journal_entry_lines = {}

\* C24: in the step in which createJournalEntry with N input lines succeeds,
\* the lines persisted for the new entry are N lines with line_order 1..N,
\* the line with line_order i having the account and the amounts of the i-th
\* input line, and all carry the id of the new entry.
C24_LineOrderIsInputOrder ==
    [][ \A p \in Clients :
          (pc[p] = "insert_lines" /\ pc'[p] = "done" /\ result'[p].success)
              => LET items == entryData[p].line_items
                     lines == { l \in journal_entry_lines' :
                                  l.journal_entry_id = entry[p] }
                 IN  /\ Cardinality(lines) = Len(items)
                     /\ { l.line_order : l \in lines } = 1..Len(items)
                     /\ \A l \in lines :
                           /\ l.account_id = items[l.line_order].account_id
                           /\ l.debit_amount = items[l.line_order].debit_amount
                           /\ l.credit_amount = items[l.line_order].credit_amount
                     /\ \A l \in journal_entry_lines' \ journal_entry_lines :
                           l \in lines ]_vars

\* C24 witness: a call has succeeded and left a credit line with line_order 1
\* and a debit line with line_order 2, both with the id of its entry.
C24_Witness ==
    \E p \in Clients : \E a \in LinesOfCall(p) : \E b \in LinesOfCall(p) :
        /\ pc[p] = "done"
        /\ result[p].success
        /\ entry[p] # 0
        /\ a.line_order = 1 /\ a.credit_amount > 0
        /\ b.line_order = 2 /\ b.debit_amount > 0
        /\ Cardinality(LinesOfCall(p)) = 2

\* C29: whenever createJournalEntry has returned success: false, for any
\* cause, journal_entries and journal_entry_lines contain no row created by
\* that call.
C29_NoRowsAfterFailure ==
    \A p \in Clients :
        (pc[p] = "done" /\ ~ result[p].success) => RowsOfCall(p) = {}

C27_ReusedAfterAnyDeletion ==
    [][ \A d \in journal_entries :
          DeletesBelowHighest(d) => NextCountedNumberExists(d.foundation_id) ]_vars

\* C27 as amended: the same, when the numbers of the foundation's entries of
\* the year were 1..n without a gap before the deletion.
C27_ReusedAfterFirstDeletion ==
    [][ \A d \in journal_entries :
          (DeletesBelowHighest(d)
             /\ GapFree(d.foundation_id, journal_entries, year))
              => NextCountedNumberExists(d.foundation_id) ]_vars

\* C27 witness: after a deletion the count-based function has returned the
\* number of an entry that exists: the foundation has a single entry, with
\* sequence 2, and the number returned is that one.
C27_Witness ==
    \E je \in journal_entries :
        /\ numResult = NumberText(year, 2)
        /\ je.foundation_id = numArgs.foundation_id
        /\ je.entry_number = numResult
        /\ EntriesOfYear(je.foundation_id, journal_entries, year) = {je}

\* C30: the creation form has at least 2 line items, at the start and after
\* any sequence of addLineItem and removeLineItem; removeLineItem(index) takes
\* out exactly the line at index when there are more than 2 lines and changes
\* nothing when there are exactly 2.
C30_AtLeastTwoLineItems ==
    /\ [](Len(formData.line_items) >= 2)
    /\ [][ \A index \in 0..(Len(formData.line_items) - 1) :
             removeLineItem(index) =>
                 IF Len(formData.line_items) > 2
                 THEN LineTakenOut(formData.line_items, formData'.line_items,
                                   index)
                 ELSE formData'.line_items = formData.line_items ]_vars

\* C30 witness: a line was added and filled in, and removeLineItem(0) ran on
\* the three lines: the form is back at two lines, the filled-in line now the
\* second.
C30_Witness ==
    /\ formEvent = [ handler |-> "removeLineItem", index |-> 0, length |-> 3 ]
    /\ Len(formData.line_items) = 2
    /\ formData.line_items[1] = BlankLine
    /\ formData.line_items[2].account_id = "4010"
    /\ formData.line_items[2].credit_amount = MaxAmount

=============================================================================
